---- MODULE Spec2Model ----
(***************************************************************************)
(* Model of forex-news-bot (src/main.py): the main loop run_bot (alert     *)
(* scheduler and RSS ingestion), the in-memory dedup state, and the Sender *)
(* queue with its single worker task and retry loop.                       *)
(*                                                                         *)
(* Time is counted in half seconds, so that the default spacing of 3.5 s   *)
(* (SEND_DELAY_SECONDS) is the integer 7.  The two asyncio tasks (run_bot  *)
(* and Sender._worker) share one event loop: a task runs when its sleep or *)
(* its I/O is over, and the synchronous part of a run_bot cycle (the       *)
(* feedparser calls) blocks the loop for its whole duration.  The wall     *)
(* clock (now_kuwait) is the event-loop clock plus a skew that clock       *)
(* adjustments change; STATE_FILE outlives the process.                    *)
(***************************************************************************)
EXTENDS Integers, Sequences, FiniteSets, TLC

VARIABLES
    mode,       \* the environment of the run: "send", "feeds", "clock", "poison",
                \* "regress", "ingest", "restart" or "start"
    poison,     \* dedup keys whose message the Publisher always rejects (mode "poison")
    now,        \* wall clock, in half seconds
    pwake,      \* time at which run_bot's sleep ends and the next cycle starts
    nticks,     \* number of run_bot cycles started
    state,      \* the dict of load_state(): [sent |-> keys, alerts |-> keys]
    queue,      \* Sender.queue, a FIFO of messages
    enq,        \* history: every message handed to Sender.send, in order
    writes,     \* history: every key written by mark_sent / set_alert_sent, in order
    skipped,    \* history: keys that is_sent / is_alert_sent kept from being enqueued
    ticks,      \* history: [first |-> now_dt of the first cycle, last |-> of the latest]
    wpc,        \* position of Sender._worker: "none" (no task yet), "get", "call",
                \* "backoff", "delay", "dying", "dead"
    wwake,      \* time at which the worker's pending await is over
    cur,        \* the message the worker took from the queue
    tries,      \* send_message calls made for cur
    callAt,     \* start time of the latest send_message call
    lastFail,   \* the latest failed answer for cur: [kind, n, at]
    onlyRA,     \* every failed answer for cur so far was RetryAfter
    fate,       \* what became of cur: "pending", "accepted" or "dropped"
    nfin,       \* history: number of messages the worker has finished with
    callGap,    \* history: at the start of the latest call, the time since the
                \* latest accepted call returned (see SinceOk)
    lastOkRet,  \* history: return time of the latest accepted call (see Recent)
    skew,       \* wall clock minus event-loop clock: what clock adjustments added up to
    file,       \* STATE_FILE: [exists, data]
    ppc,        \* position of run_bot: "loop", or "dead" when an error ended the task
    hist,       \* history of the latest cycle: [feeds, at, fault, nfaults, twice]; at
                \* is the time of its fetch, twice holds the fingerprints that this
                \* cycle and the one before it fetched
    worker_task,\* Sender.worker_task: "None" or "task"
    ntasks,     \* history: number of _worker tasks created
    nstarts,    \* history: number of calls of Sender.start()
    lastEnd,    \* history: [at, fate] of the latest finished _send_with_retry (see Recent)
    getGap,     \* history: at queue.get() of cur, the time since lastEnd.at (see SinceOk)
    stop        \* history of the latest restart: [n, enqAt, before, failed, lost]

\* the variables added by run_bot's side and by the sender's side
prodVars == <<skew, file, ppc, hist>>
sendVars == <<worker_task, ntasks, nstarts, lastEnd, getGap>>

vars == <<mode, poison, now, pwake, nticks, state, queue, enq, writes, skipped, ticks,
          wpc, wwake, cur, tries, callAt, lastFail, onlyRA, fate, nfin,
          callGap, lastOkRet, skew, file, ppc, hist, worker_task, ntasks,
          nstarts, lastEnd, getGap, stop>>


---------------------------------------------------------------------------
(* Units and configuration *)

Seconds(n) == 2 * n
Minutes(n) == 120 * n

\* the element of a one-element set; used to name an intermediate value
Only(S) == CHOOSE x \in S : TRUE

Max(a, b) == IF a >= b THEN a ELSE b
Min(a, b) == IF a <= b THEN a ELSE b

\* POLL_SECONDS, default "60"
POLL_SECONDS == 60
\* SEND_DELAY_SECONDS, default "3.5", in half seconds
SEND_DELAY_SECONDS == 7
\* for _ in range(6)
MAX_TRIES == 6
\* timedelta(minutes=1): the width of an alert's emission window, in minutes
WINDOW_MINUTES == 1
\* for it in items[:5]
ITEM_LIMIT == 5
\* feed.entries[:30]
ENTRY_LIMIT == 30
\* asyncio.sleep(3) after TimedOut / NetworkError, asyncio.sleep(2) after any other error
TRANSIENT_SLEEP == 3
FATAL_SLEEP == 2
\* asyncio.sleep(5) after an error in a cycle
ERROR_SLEEP == 5

\* Bounds of the model
MaxTicks == 2          \* run_bot cycles in modes "feeds" and "poison"
SendTicks == 1         \* run_bot cycles in modes "send" and "start", and per process
                       \* in mode "restart"
MaxCycleTime == 2      \* longest blocking time of one cycle (half seconds)
MaxCallTime == 1       \* longest duration of one send_message call (half seconds)
MaxRetryAfter == 5     \* largest retry_after the Publisher states (seconds)
MaxStarts == 3         \* calls of Sender.start() (mode "start")
MaxDiskWrites == 3     \* writes of a cycle that may fail (mode "restart")
MaxRestarts == 1       \* times the process is stopped and started again (mode "restart")

NoTime == 0 - 1
LongAgo == 0 - 2
NoMsg == [seq |-> 0, kind |-> "none", key |-> ""]
NoFail == [kind |-> "none", n |-> 0, at |-> NoTime]
NoStop == [n |-> 0, enqAt |-> 0, before |-> {}, failed |-> FALSE, lost |-> {}]

---------------------------------------------------------------------------
(* Helpers *)

\* short_hash(*parts): sha256 of "|".join(parts), cut to 16 hex digits.  The
\* digest is represented by the joined string it is computed from (sha256 is
\* taken to be collision free on the strings of the model).
RECURSIVE JoinParts(_)
JoinParts(parts) ==
    IF Len(parts) = 0 THEN ""
    ELSE IF Len(parts) = 1 THEN parts[1]
    ELSE parts[1] \o "|" \o JoinParts(Tail(parts))

short_hash(parts) == JoinParts(parts)

\* str(pub_dt) of a datetime, here a number of half seconds
StrTime(t) == ToString(t)

\* detect_strength(text): the first keyword list with a keyword in the text
\* decides; the default is the middle tier.  The Arabic keywords are left out
\* and the three Arabic tier names are written in Latin letters.
StrongKw == {"high impact", "breaking", "urgent", "intervention"}
MediumKw == {"moderate"}
LowKw == {"low impact"}

detect_strength(kws) ==
    IF kws \cap StrongKw # {} THEN "aaly"
    ELSE IF kws \cap MediumKw # {} THEN "mutawassit"
    ELSE IF kws \cap LowKw # {} THEN "munkhafid"
    ELSE "mutawassit"

---------------------------------------------------------------------------
(* State (dedupe + alerts).  The dicts map a key to int(time.time()); the  *)
(* values are never read by the program, so a dict is held as its key set. *)

EmptyState == [sent |-> {}, alerts |-> {}]

mark_sent(st, item_id) == [st EXCEPT !.sent = @ \cup {item_id}]

is_sent_never(st, item_id) == FALSE
is_sent(st, item_id) == item_id \in st.sent

set_alert_sent_lost(st, alert_id) == st
set_alert_sent(st, alert_id) == [st EXCEPT !.alerts = @ \cup {alert_id}]

is_alert_sent_never(st, alert_id) == FALSE
is_alert_sent(st, alert_id) == alert_id \in st.alerts

\* STATE_FILE: absent until the first save that opens it; valid tells whether
\* it holds the JSON text of data
NoFile == [exists |-> FALSE, valid |-> FALSE, data |-> EmptyState]

\* load_state(): the empty state when the file is absent, and also when open
\* fails (readable = FALSE) or json.load cannot parse what the file holds
load_state(f, readable) ==
    IF ~f.exists THEN EmptyState
    ELSE IF readable /\ f.valid THEN f.data
    ELSE EmptyState

\* save_state(state): open(STATE_FILE, "w") and json.dump of the whole state,
\* every exception logged.  "ok": the file holds the state; "denied": open
\* raised and the file is as it was; "broken": open truncated the file and the
\* write raised, so the file exists and holds no JSON text.
save_state(f, st, answer) ==
    IF answer = "ok" THEN [exists |-> TRUE, valid |-> TRUE, data |-> st]
    ELSE IF answer = "denied" THEN f
    ELSE [exists |-> TRUE, valid |-> FALSE, data |-> EmptyState]

---------------------------------------------------------------------------
(* Events (events.json) *)

\* The third accepted impact is an Arabic word, written here in Latin letters.
HighImpacts == {"high", "strong", "aaly"}

is_high_impact_any(ev) == TRUE
is_high_impact(ev) == ev.impact \in HighImpacts

\* The events the program reads from EVENTS_FILE: two high-impact events 10
\* minutes apart and one that is not high impact.
EventT == Minutes(40)
load_events ==
    << [id |-> "e1", dt |-> EventT, impact |-> "high"],
       [id |-> "e2", dt |-> EventT + Minutes(10), impact |-> "strong"],
       [id |-> "e3", dt |-> EventT, impact |-> "low"] >>

Leads == {30, 5}

alert_id(ev, lead) == ev.id \o (IF lead = 30 THEN "_a30" ELSE "_a05")

DueAt(ev, lead) == ev.dt - Minutes(lead)

\* t30 <= now_dt <= t30 + timedelta(minutes=1)
InWindowHalf(now_dt, due) == due <= now_dt /\ now_dt <= due + Seconds(30)
InWindow(now_dt, due) == due <= now_dt /\ now_dt <= due + Minutes(WINDOW_MINUTES)

---------------------------------------------------------------------------
(* Sender.send and the producer's accumulator.  acc is the part of the     *)
(* program state a run_bot cycle changes, with its history:                *)
(* [state, queue, enq, writes, skipped, file, disk]; disk lists what the   *)
(* coming writes of this cycle to STATE_FILE meet, one answer per call of  *)
(* save_state; calls beyond the list succeed.                              *)

DiskAnswer(acc) == IF acc.disk = <<>> THEN "ok" ELSE Head(acc.disk)
DiskRest(acc) == IF acc.disk = <<>> THEN <<>> ELSE Tail(acc.disk)

SenderSend(acc, kind, key) ==
    LET msg == [seq |-> Len(acc.enq) + 1, kind |-> kind, key |-> key]
    IN  [acc EXCEPT !.queue = Append(@, msg), !.enq = Append(@, msg)]

\* one lead of one event: lines 444-449 / 452-457
AlertOne(acc, ev, lead, now_dt) ==
    IF ~InWindow(now_dt, DueAt(ev, lead)) THEN acc
    ELSE IF is_alert_sent(acc.state, alert_id(ev, lead))
    THEN [acc EXCEPT !.skipped = @ \cup {alert_id(ev, lead)}]
    ELSE LET sent == SenderSend(acc, "alert", alert_id(ev, lead))
             st == set_alert_sent(acc.state, alert_id(ev, lead))
         IN  [sent EXCEPT !.state = st,
                          !.writes = Append(@, alert_id(ev, lead)),
                          !.file = save_state(@, st, DiskAnswer(acc)),
                          !.disk = DiskRest(acc)]

AlertEvent(acc, ev, now_dt) ==
    IF ~is_high_impact(ev) THEN acc
    ELSE Only({AlertOne(after30, ev, 5, now_dt) :
                   after30 \in {AlertOne(acc, ev, 30, now_dt)}})

RECURSIVE AlertLoop(_, _, _)
AlertLoop(acc, events, now_dt) ==
    IF events = <<>> THEN acc
    ELSE Only({AlertLoop(next, Tail(events), now_dt) :
                   next \in {AlertEvent(acc, Head(events), now_dt)}})

---------------------------------------------------------------------------
(* RSS fetching.  A feed answer is [ok, entries]; an entry is              *)
(* [source, title, published, arabic], published = NoTime when the entry   *)
(* has no parseable timestamp.                                             *)

\* parse_entry_time: the entry's time, else now_kuwait() read when the entry is
\* parsed: t is the time at which feedparser.parse has returned (the feeds of
\* the model hold at most one entry without a timestamp per fetch, in the
\* first feed, whose parse is the one that blocks)
parse_entry_time(e, t) == IF e.published = NoTime THEN t ELSE e.published

MakeItem(e, t) ==
    LET pub_dt == parse_entry_time(e, t)
    IN  [id |-> short_hash(<<e.source, e.title, StrTime(pub_dt)>>),
         title |-> e.title, source |-> e.source, published |-> pub_dt]

\* ARABIC_ONLY is on and TRANSLATE_EN is off (the defaults): entries without
\* Arabic text are skipped
RECURSIVE EntryItems(_, _)
EntryItems(entries, t) ==
    IF entries = <<>> THEN <<>>
    ELSE IF Head(entries).arabic
         THEN <<MakeItem(Head(entries), t)>> \o EntryItems(Tail(entries), t)
         ELSE EntryItems(Tail(entries), t)

FeedItems(feed, t) ==
    IF feed.ok
    THEN EntryItems(SubSeq(feed.entries, 1, Min(Len(feed.entries), ENTRY_LIMIT)), t)
    ELSE <<>>

\* the items the feeds that answered gave in a fetch at time t
RECURSIVE ItemsOfOkFeeds(_, _)
ItemsOfOkFeeds(feeds, t) ==
    IF feeds = <<>> THEN {}
    ELSE (IF Head(feeds).ok
          THEN {FeedItems(Head(feeds), t)[n] : n \in 1 .. Len(FeedItems(Head(feeds), t))}
          ELSE {})
         \cup ItemsOfOkFeeds(Tail(feeds), t)

\* the fingerprints of those items
FetchedIds(feeds, t) == {it.id : it \in ItemsOfOkFeeds(feeds, t)}

\* for url in RSS_FEEDS, with the try / except inside the loop: a feed that
\* fails adds nothing and the next feed is fetched
RECURSIVE AllFeedItemsUntilError(_, _)
AllFeedItemsUntilError(feeds, t) ==
    IF feeds = <<>> \/ ~Head(feeds).ok THEN <<>>
    ELSE FeedItems(Head(feeds), t) \o AllFeedItemsUntilError(Tail(feeds), t)

RECURSIVE AllFeedItems(_, _)
AllFeedItems(feeds, t) ==
    IF feeds = <<>> THEN <<>>
    ELSE FeedItems(Head(feeds), t) \o AllFeedItems(Tail(feeds), t)

\* items.sort(key=published, reverse=True): newest first, stable
RECURSIVE InsertNewest(_, _)
InsertNewest(sorted, x) ==
    IF sorted = <<>> THEN <<x>>
    ELSE IF Head(sorted).published >= x.published
         THEN <<Head(sorted)>> \o InsertNewest(Tail(sorted), x)
         ELSE <<x>> \o sorted

RECURSIVE SortNewest(_, _)
SortNewest(done, rest) ==
    IF rest = <<>> THEN done
    ELSE Only({SortNewest(next, Tail(rest)) : next \in {InsertNewest(done, Head(rest))}})

fetch_rss_items(feeds, t) ==
    Only({SortNewest(<<>>, items) : items \in {AllFeedItems(feeds, t)}})

\* one item of `for it in items[:5]`: lines 464-498
NewsOne(acc, it) ==
    IF is_sent(acc.state, it.id) THEN [acc EXCEPT !.skipped = @ \cup {it.id}]
    ELSE LET sent == SenderSend(acc, "news", it.id)
             st == mark_sent(acc.state, it.id)
         IN  [sent EXCEPT !.state = st,
                          !.writes = Append(@, it.id),
                          !.file = save_state(@, st, DiskAnswer(acc)),
                          !.disk = DiskRest(acc)]

RECURSIVE NewsLoop(_, _)
NewsLoop(acc, items) ==
    IF items = <<>> THEN acc
    ELSE Only({NewsLoop(next, Tail(items)) : next \in {NewsOne(acc, Head(items))}})

FirstItems(items) == SubSeq(items, 1, Min(Len(items), ITEM_LIMIT))

---------------------------------------------------------------------------
(* The environment: what the feeds and the Publisher may answer *)

eA == [source |-> "FXStreet", title |-> "t1", published |-> Minutes(30), arabic |-> TRUE]
eB == [source |-> "FXStreet", title |-> "t2", published |-> Minutes(31), arabic |-> TRUE]
eN == [source |-> "FXStreet", title |-> "t3", published |-> NoTime, arabic |-> TRUE]
eE == [source |-> "FXStreet", title |-> "en", published |-> Minutes(32), arabic |-> FALSE]

\* further entries: four newer ones, and an older one
eC == [source |-> "FXStreet", title |-> "t4", published |-> Minutes(32), arabic |-> TRUE]
eD == [source |-> "FXStreet", title |-> "t5", published |-> Minutes(33), arabic |-> TRUE]
eF == [source |-> "FXStreet", title |-> "t6", published |-> Minutes(34), arabic |-> TRUE]
eG == [source |-> "FXStreet", title |-> "t7", published |-> Minutes(35), arabic |-> TRUE]
eL == [source |-> "FXStreet", title |-> "t8", published |-> Minutes(29), arabic |-> TRUE]

\* the keywords of detect_strength that the text (title and summary) of an
\* entry holds: t8 reads "low impact", t7 reads "breaking", the others none
KeywordsIn(title) ==
    IF title = "t8" THEN {"low impact"}
    ELSE IF title = "t7" THEN {"breaking", "low impact"}
    ELSE {}

FeedError == [ok |-> FALSE, entries |-> <<>>]
FeedOf(entries) == [ok |-> TRUE, entries |-> entries]

\* RSS_FEEDS holds two URLs of the same site; what feedparser.parse may give
\* for each of them in one cycle
FirstFeedAnswers ==
    {FeedError, FeedOf(<<>>), FeedOf(<<eA>>), FeedOf(<<eA, eB>>), FeedOf(<<eN, eE>>)}
SecondFeedAnswers == {FeedError, FeedOf(<<eA>>)}

\* the answers in mode "ingest": a feed of six entries, and one with an entry
\* that has no timestamp
IngestFirstAnswers == {FeedError, FeedOf(<<eA, eB, eC, eD, eF, eG>>), FeedOf(<<eN, eL>>)}
IngestSecondAnswers == {FeedError, FeedOf(<<eA, eL>>)}

Fetches ==
    IF mode = "feeds" THEN {<<f1, f2>> : f1 \in FirstFeedAnswers, f2 \in SecondFeedAnswers}
    ELSE IF mode = "ingest"
    THEN {<<f1, f2>> : f1 \in IngestFirstAnswers, f2 \in IngestSecondAnswers}
    ELSE IF mode = "clock" THEN {<<FeedOf(<<eA>>), FeedError>>}
    ELSE IF mode = "poison" THEN {<<FeedOf(<<eA, eB>>), FeedOf(<<eA>>)>>}
    ELSE {<<FeedOf(<<eA, eB>>), FeedOf(<<eA>>)>>}

\* how long the synchronous part of a cycle blocks the event loop
CycleTimes == IF mode \in {"clock", "restart"} THEN {0} ELSE {0, MaxCycleTime}

\* how long one send_message call takes
CallTimes == IF mode \in {"send", "start"} THEN {0, MaxCallTime} ELSE {0}

\* retry_after values the Publisher may state, in half seconds (1.5 s and the largest)
RetryAfterValues == {3, Seconds(MaxRetryAfter)}

Ok == [kind |-> "ok", n |-> 0]
Transient == [kind |-> "transient", n |-> 0]
Fatal == [kind |-> "fatal", n |-> 0]
RetryAfter(n) == [kind |-> "retry_after", n |-> n]

\* the answers of bot.send_message for a message (in mode "ingest" only the
\* first message of the run meets failures)
Outcomes(msg) ==
    IF mode \in {"feeds", "clock", "regress", "restart", "start"} THEN {Ok, Transient}
    ELSE IF mode = "ingest" THEN (IF msg.seq = 1 THEN {Ok, Transient} ELSE {Ok})
    ELSE IF mode = "poison" THEN (IF msg.key \in poison THEN {Fatal} ELSE {Ok})
    ELSE {Ok, Transient, Fatal} \cup {RetryAfter(n) : n \in RetryAfterValues}

\* by how much the system clock is set back while run_bot sleeps
ClockSteps == IF mode = "regress" THEN {0, Seconds(POLL_SECONDS)} ELSE {0}

\* an exception that escapes to the except clause of the loop: none, or one
\* raised after the alerts, at the fetch
CycleFaults == IF mode = "ingest" THEN {"none", "fetch"} ELSE {"none"}

\* whether json.load reads STATE_FILE back when the process starts
LoadAnswers(f) == IF f.exists THEN {TRUE, FALSE} ELSE {TRUE}

\* what the writes of a cycle to STATE_FILE meet, call by call
DiskOutcomes == {"ok", "denied", "broken"}
DiskAnswers ==
    IF mode = "restart" THEN [1 .. MaxDiskWrites -> DiskOutcomes] ELSE {<<>>}

\* the simulated clock of mode "clock" runs from T - 35 min to T + 1 min
ClockStart == EventT - Minutes(35)
ClockEnd == EventT + Minutes(1)

---------------------------------------------------------------------------
(* Scheduling of the two tasks on the event loop *)

WorkerTimed == wpc \in {"call", "backoff", "delay", "dying"}

ProducerActive ==
    /\ ppc = "loop"
    /\ IF mode = "clock" THEN Max(now, pwake) <= ClockEnd
       ELSE IF mode \in {"send", "restart", "start"} THEN nticks < SendTicks
       ELSE nticks < MaxTicks

ProducerCanRun ==
    /\ ProducerActive
    /\ IF wpc = "get" THEN queue = <<>> \/ pwake <= now
       ELSE IF WorkerTimed THEN pwake <= Max(now, wwake)
       ELSE TRUE

WorkerCanRun ==
    /\ WorkerTimed
    /\ ~ProducerActive \/ wwake <= Max(now, pwake)

\* The return time r of the latest accepted call is kept while t - r is below
\* the spacing; after that every later call is at least the spacing away and
\* only that fact is kept.
Recent(r, t) ==
    IF r \in {NoTime, LongAgo} THEN r
    ELSE IF t - r >= SEND_DELAY_SECONDS THEN LongAgo ELSE r

\* time from the latest accepted return r to a call that starts at t, counted
\* up to the spacing; NoTime when no call was accepted before
SinceOk(r, t) ==
    IF r = NoTime THEN NoTime
    ELSE IF r = LongAgo THEN SEND_DELAY_SECONDS
    ELSE Min(t - r, SEND_DELAY_SECONDS)

---------------------------------------------------------------------------
(* run_bot: one pass of the while loop, lines 433-500 *)

\* now_dt is the clock read at line 437, fetch_dt the clock when the feeds
\* have been parsed
CycleResult(acc, feeds, now_dt, fetch_dt) ==
    Only({NewsLoop(alerted, items) :
              alerted \in {AlertLoop(acc, load_events, now_dt)},
              items \in {FirstItems(fetch_rss_items(feeds, fetch_dt))}})

\* a pass that an exception ends at the fetch: the alerts are done, no news
CycleFaulted(acc, now_dt) == AlertLoop(acc, load_events, now_dt)

PollSleep == Seconds(POLL_SECONDS)
ErrorSleep == Seconds(ERROR_SLEEP)

\* except Exception as e: the loop goes on after any error of a cycle
LoopCaught(fault) == fault \in {"fetch"}

\* now_kuwait(): the wall clock, when the event-loop clock reads t
now_kuwait(t, wallskew) == t + wallskew

RunCycle ==
    /\ ProducerCanRun
    /\ \E feeds \in Fetches, d \in CycleTimes, back \in ClockSteps,
          fault \in CycleFaults, disk \in DiskAnswers :
        \E t \in {Max(now, pwake)} :
        \E now_dt \in {now_kuwait(t, skew - back)} :
        \E fetch_dt \in {now_kuwait(t + d, skew - back)} :
        \E acc \in {[state |-> state, queue |-> queue, enq |-> enq, writes |-> writes,
                      skipped |-> skipped, file |-> file, disk |-> disk]} :
        \E res \in {IF fault = "none" THEN CycleResult(acc, feeds, now_dt, fetch_dt)
                     ELSE CycleFaulted(acc, now_dt)} :
            /\ state' = res.state
            /\ queue' = res.queue
            /\ enq' = res.enq
            /\ writes' = res.writes
            /\ skipped' = res.skipped
            /\ file' = res.file
            /\ skew' = skew - back
            /\ now' = t + d
            /\ pwake' = t + d + (IF fault = "none" THEN PollSleep ELSE ErrorSleep)
            /\ ppc' = IF fault = "none" \/ LoopCaught(fault) THEN "loop" ELSE "dead"
            /\ nticks' = nticks + 1
            /\ ticks' = [first |-> IF ticks.first = NoTime THEN now_dt ELSE ticks.first,
                         last |-> now_dt]
            /\ hist' = [feeds |-> IF fault = "none" THEN feeds ELSE <<>>,
                        fault |-> fault,
                        at |-> fetch_dt,
                        nfaults |-> hist.nfaults + (IF fault = "none" THEN 0 ELSE 1),
                        twice |-> IF fault = "none"
                                  THEN FetchedIds(hist.feeds, hist.at)
                                           \cap FetchedIds(feeds, fetch_dt)
                                  ELSE {}]
            /\ lastOkRet' = Recent(lastOkRet, t + d)
            /\ lastEnd' = [lastEnd EXCEPT !.at = Recent(@, t + d)]
    /\ UNCHANGED <<mode, poison, wpc, wwake, cur, tries, callAt, lastFail, onlyRA,
                   fate, nfin, callGap, worker_task, ntasks, nstarts, getGap, stop>>

---------------------------------------------------------------------------
(* Sender._worker and Sender._send_with_retry, lines 270-300 *)

\* queue.get(): the oldest message
QueueGetLast(q) == q[Len(q)]
QueueGet(q) == Head(q)

QueueRest(q) == Tail(q)

\* wait = int(retry_after) + 1 seconds
RetryWaitNoMargin(n) == Seconds(n \div 2)
RetryWait(n) == Seconds(n \div 2 + 1)

\* the sleep that follows a failed answer
BackoffSleepNone(out) == 0 * Seconds(FATAL_SLEEP)
BackoffSleep(out) ==
    IF out.kind = "retry_after" THEN RetryWait(out.n)
    ELSE IF out.kind = "transient" THEN Seconds(TRANSIENT_SLEEP)
    ELSE Seconds(FATAL_SLEEP)

\* the except clauses catch RetryAfter, TimedOut/NetworkError and Exception
CaughtKnownOnly(out) == out.kind \in {"retry_after", "transient"}
Caught(out) == out.kind \in {"retry_after", "transient", "fatal"}

\* for _ in range(6): the loop ends after the sixth failed call
Exhausted(n) == n >= MAX_TRIES

\* finally: await asyncio.sleep(self.delay)
FinallySleepNone == 0 * SEND_DELAY_SECONDS
FinallySleep == SEND_DELAY_SECONDS

\* Sender.start(): if self.worker_task is None, create the worker task.  The
\* first call is the one of run_bot (line 428), which then loads the state and
\* enters its loop.
StartCreatesAlways(task) == TRUE
StartCreates(task) == task = "None"

Start ==
    /\ nstarts < MaxStarts
    /\ nstarts' = nstarts + 1
    /\ IF StartCreates(worker_task)
       THEN /\ worker_task' = "task"
            /\ ntasks' = ntasks + 1
            /\ wpc' = IF wpc = "none" THEN "get" ELSE wpc
       ELSE UNCHANGED <<worker_task, ntasks, wpc>>
    /\ ppc' = IF ppc = "start" THEN "loop" ELSE ppc
    /\ state' = IF ppc = "start" THEN load_state(file, TRUE) ELSE state
    /\ UNCHANGED <<mode, poison, now, pwake, nticks, queue, enq, writes, skipped, ticks,
                   wwake, cur, tries, callAt, lastFail, onlyRA, fate, nfin, callGap,
                   lastOkRet, skew, file, hist, lastEnd, getGap, stop>>

\* text, reply_to = await self.queue.get(); first send_message call
WGet ==
    /\ wpc = "get"
    /\ queue # <<>>
    /\ \E dur \in CallTimes :
        /\ cur' = QueueGet(queue)
        /\ queue' = QueueRest(queue)
        /\ tries' = 0
        /\ onlyRA' = TRUE
        /\ lastFail' = NoFail
        /\ fate' = "pending"
        /\ wpc' = "call"
        /\ callAt' = now
        /\ callGap' = SinceOk(lastOkRet, now)
        /\ getGap' = SinceOk(lastEnd.at, now)
        /\ wwake' = now + dur
    /\ UNCHANGED <<mode, poison, now, pwake, nticks, state, enq, writes, skipped, ticks,
                   nfin, lastOkRet, prodVars, worker_task, ntasks, nstarts, lastEnd, stop>>

\* bot.send_message returns or raises
WReturn ==
    /\ wpc = "call"
    /\ WorkerCanRun
    /\ \E out \in Outcomes(cur) :
        LET t == Max(now, wwake) IN
        /\ now' = t
        /\ tries' = tries + 1
        /\ IF out.kind = "ok"
           THEN /\ fate' = "accepted"
                /\ lastOkRet' = t
                /\ lastEnd' = [at |-> t, fate |-> "accepted"]
                /\ wpc' = "delay"
                /\ wwake' = t + FinallySleep
                /\ UNCHANGED <<lastFail, onlyRA>>
           ELSE /\ lastFail' = [kind |-> out.kind, n |-> out.n, at |-> t]
                /\ onlyRA' = (onlyRA /\ out.kind = "retry_after")
                /\ IF Caught(out)
                   THEN /\ wpc' = "backoff"
                        /\ wwake' = t + BackoffSleep(out)
                        /\ lastEnd' = [lastEnd EXCEPT !.at = Recent(@, t)]
                   ELSE /\ wpc' = "dying"
                        /\ wwake' = t + FinallySleep
                        /\ lastEnd' = [at |-> t, fate |-> "raised"]
                /\ lastOkRet' = Recent(lastOkRet, t)
                /\ UNCHANGED fate
    /\ UNCHANGED <<mode, poison, pwake, nticks, state, queue, enq, writes, skipped, ticks,
                   cur, callAt, nfin, callGap, prodVars, worker_task, ntasks, nstarts, getGap, stop>>

\* the sleep after a failed call is over: the next call, or the end of the loop
WRetry ==
    /\ wpc = "backoff"
    /\ WorkerCanRun
    /\ \E dur \in CallTimes :
        LET t == Max(now, wwake) IN
        /\ now' = t
        /\ lastOkRet' = Recent(lastOkRet, t)
        /\ IF Exhausted(tries)
           THEN /\ fate' = "dropped"
                /\ wpc' = "delay"
                /\ wwake' = t + FinallySleep
                /\ lastEnd' = [at |-> t, fate |-> "dropped"]
                /\ UNCHANGED <<callAt, callGap>>
           ELSE /\ wpc' = "call"
                /\ callAt' = t
                /\ callGap' = SinceOk(lastOkRet, t)
                /\ wwake' = t + dur
                /\ lastEnd' = [lastEnd EXCEPT !.at = Recent(@, t)]
                /\ UNCHANGED fate
    /\ UNCHANGED <<mode, poison, pwake, nticks, state, queue, enq, writes, skipped, ticks,
                   cur, tries, lastFail, onlyRA, nfin, prodVars, worker_task, ntasks,
                   nstarts, getGap, stop>>

\* the finally sleep is over: task_done(), back to queue.get() (or the task ends
\* with the exception that escaped)
WDone ==
    /\ wpc \in {"delay", "dying"}
    /\ WorkerCanRun
    /\ now' = Max(now, wwake)
    /\ wpc' = IF wpc = "delay" THEN "get" ELSE "dead"
    /\ cur' = NoMsg
    /\ tries' = 0
    /\ callAt' = NoTime
    /\ lastFail' = NoFail
    /\ onlyRA' = TRUE
    /\ fate' = "pending"
    /\ callGap' = NoTime
    /\ nfin' = nfin + 1
    /\ lastOkRet' = Recent(lastOkRet, Max(now, wwake))
    /\ lastEnd' = [lastEnd EXCEPT !.at = Recent(@, Max(now, wwake))]
    /\ getGap' = NoTime
    /\ UNCHANGED <<mode, poison, pwake, nticks, state, queue, enq, writes, skipped, ticks, wwake,
                   prodVars, worker_task, ntasks, nstarts, stop>>

WorkerStep == WGet \/ WReturn \/ WRetry \/ WDone

---------------------------------------------------------------------------
(* The process is stopped and started again: main(), lines 506-511.  The   *)
(* queue and both tasks are gone; run_bot starts a new Sender, reads       *)
(* STATE_FILE with load_state() and runs its first cycle at once.          *)

\* the keys of the messages the Publisher has not accepted when the process stops
Unaccepted ==
    {queue[i].key : i \in 1 .. Len(queue)}
        \cup (IF cur # NoMsg /\ fate # "accepted" THEN {cur.key} ELSE {})

Restart ==
    /\ stop.n < MaxRestarts
    /\ \E readable \in LoadAnswers(file) :
        /\ state' = load_state(file, readable)
        /\ stop' = [n |-> stop.n + 1,
                    enqAt |-> Len(enq),
                    before |-> file.data.sent \cup file.data.alerts,
                    failed |-> file.exists /\ ~(readable /\ file.valid),
                    lost |-> Unaccepted]
    /\ queue' = <<>>
    /\ wpc' = "get"
    /\ cur' = NoMsg
    /\ tries' = 0
    /\ callAt' = NoTime
    /\ lastFail' = NoFail
    /\ onlyRA' = TRUE
    /\ fate' = "pending"
    /\ callGap' = NoTime
    /\ getGap' = NoTime
    /\ nfin' = Len(enq)
    /\ pwake' = now
    /\ nticks' = 0
    /\ ppc' = "loop"
    /\ worker_task' = "task"
    /\ UNCHANGED <<mode, poison, now, enq, writes, skipped, ticks, wwake, lastOkRet,
                   skew, file, hist, ntasks, nstarts, lastEnd>>

---------------------------------------------------------------------------
(* Specifications *)

\* the program starts shortly before or at the due time of e1's 5-minute alert
MainStarts == {DueAt(load_events[1], 5) - 1, DueAt(load_events[1], 5)}

InitCommon ==
    /\ pwake = now
    /\ nticks = 0
    /\ state = EmptyState
    /\ queue = <<>>
    /\ enq = <<>>
    /\ writes = <<>>
    /\ skipped = {}
    /\ ticks = [first |-> NoTime, last |-> NoTime]
    /\ wpc = IF mode = "start" THEN "none" ELSE "get"
    /\ wwake = 0
    /\ cur = NoMsg
    /\ tries = 0
    /\ callAt = NoTime
    /\ lastFail = NoFail
    /\ onlyRA = TRUE
    /\ fate = "pending"
    /\ nfin = 0
    /\ callGap = NoTime
    /\ lastOkRet = NoTime
    /\ skew = 0
    /\ file = NoFile
    /\ ppc = IF mode = "start" THEN "start" ELSE "loop"
    /\ hist = [feeds |-> <<>>, at |-> NoTime, fault |-> "none", nfaults |-> 0,
               twice |-> {}]
    /\ worker_task = IF mode = "start" THEN "None" ELSE "task"
    /\ ntasks = IF mode = "start" THEN 0 ELSE 1
    /\ nstarts = ntasks
    /\ lastEnd = [at |-> NoTime, fate |-> "none"]
    /\ getGap = NoTime
    /\ stop = NoStop

\* the sender under a Publisher that may answer anything
Init ==
    /\ mode = "send"
    /\ poison = {}
    /\ now \in MainStarts
    /\ InitCommon

\* the main loop under feeds that may answer anything
InitFeeds ==
    /\ mode = "feeds"
    /\ poison = {}
    /\ now \in MainStarts
    /\ InitCommon

\* ticks exactly POLL_SECONDS apart, from T - 35 min (any phase) to T + 1 min
InitClock ==
    /\ mode = "clock"
    /\ poison = {}
    /\ now \in ClockStart .. (ClockStart + PollSleep - 1)
    /\ InitCommon

\* a Publisher that rejects one key on every attempt and accepts all others
PoisonKeys == {alert_id(load_events[1], 5), MakeItem(eA, 0).id, MakeItem(eB, 0).id}
InitPoison ==
    /\ mode = "poison"
    /\ poison \in {{k} : k \in PoisonKeys}
    /\ now \in MainStarts
    /\ InitCommon

\* the main loop under a system clock that may be set back between two cycles
InitRegress ==
    /\ mode = "regress"
    /\ poison = {}
    /\ now \in MainStarts
    /\ InitCommon

\* the main loop under feeds that may fail and cycles that may raise
InitIngest ==
    /\ mode = "ingest"
    /\ poison = {}
    /\ now \in MainStarts
    /\ InitCommon

\* a process that may be stopped at any moment and started again
InitRestart ==
    /\ mode = "restart"
    /\ poison = {}
    /\ now \in MainStarts
    /\ InitCommon

\* the process from before run_bot's call of Sender.start(), with further
\* calls of start() at any moment
InitStart ==
    /\ mode = "start"
    /\ poison = {}
    /\ now \in MainStarts
    /\ InitCommon

Next == RunCycle \/ WGet \/ WReturn \/ WRetry \/ WDone

NextStart == Start \/ RunCycle \/ WGet \/ WReturn \/ WRetry \/ WDone

NextRestart == RunCycle \/ WGet \/ WReturn \/ WRetry \/ WDone \/ Restart

Spec == Init /\ [][Next]_vars

SpecFeeds == InitFeeds /\ [][Next]_vars

SpecClock == InitClock /\ [][Next]_vars

SpecRegress == InitRegress /\ [][Next]_vars

SpecIngest == InitIngest /\ [][Next]_vars

SpecStart == InitStart /\ [][NextStart]_vars

SpecRestart == InitRestart /\ [][NextRestart]_vars

\* the event loop runs every task whose await is over
SpecPoison == InitPoison /\ [][Next]_vars /\ WF_vars(RunCycle) /\ WF_vars(WorkerStep)

---------------------------------------------------------------------------
(* Properties *)

Recorded == state.sent \cup state.alerts

\* the messages handed to the sender so far that carry key k
EnqueuedWith(k) == {i \in 1 .. Len(enq) : enq[i].key = k}

\* the messages the worker has not finished with: still queued, or held as cur
Unfinished == {i \in 1 .. Len(enq) : i > nfin}

IdA == MakeItem(eA, 0).id
E1 == load_events[1]

\* C1: a dedup key is recorded only once the Publisher has accepted the message
\* that carries it (and so the producer records none).  Stated for the messages
\* whose fate the state still shows: a message that waits in the queue, or that
\* the worker holds without an accepted call, has no recorded key.
C1_RecordedOnlyAfterAccept ==
    \A i \in Unfinished :
        enq[i].key \in Recorded => (cur = enq[i] /\ fate = "accepted")

\* C2: among the news items fetched with the same (source, title, published
\* time), hence the same fingerprint, only the first is enqueued: no two
\* messages handed to the sender carry the same news fingerprint.
C2_NewsEnqueuedOnce ==
    \A i, j \in 1 .. Len(enq) :
        (enq[i].kind = "news" /\ enq[i].key = enq[j].key) => i = j

\* C2 witness: item eA was met again after it had been enqueued (a second feed
\* or a later cycle), was skipped by is_sent, and is in the log once.
C2_Witness ==
    /\ mode = "feeds"
    /\ nticks >= 2
    /\ IdA \in skipped
    /\ Cardinality(EnqueuedWith(IdA)) = 1

\* C3: for every (event id, lead) pair at most one alert is enqueued in a run,
\* however many ticks fall inside its window.
C3_AlertEnqueuedOnce ==
    \A ev \in {load_events[n] : n \in 1 .. Len(load_events)}, lead \in Leads :
        Cardinality(EnqueuedWith(alert_id(ev, lead))) <= 1

\* C3 witness: a second tick fell inside the window of e1's 5-minute alert and
\* is_alert_sent kept the alert from being enqueued again.
C3_Witness ==
    /\ mode = "feeds"
    /\ alert_id(E1, 5) \in skipped
    /\ InWindow(ticks.last, DueAt(E1, 5))
    /\ ticks.first < ticks.last
    /\ Cardinality(EnqueuedWith(alert_id(E1, 5))) = 1

\* C4: messages reach the Publisher in enqueue order: the message the worker
\* holds (calling, backing off, or in its closing sleep) is the oldest enqueued
\* message it has not finished with, and the queue holds the ones after it in
\* order; so no call for B is made while an earlier A is still being retried.
C4_Ordering ==
    /\ cur # NoMsg => (cur.seq = nfin + 1 /\ enq[cur.seq] = cur)
    /\ \A i \in 1 .. Len(queue) :
        queue[i] = enq[nfin + (IF cur = NoMsg THEN 0 ELSE 1) + i]

\* C4 witness: A has failed twice and is being retried while B waits behind it.
C4_Witness ==
    /\ cur.seq = 1
    /\ tries >= 2
    /\ wpc = "call"
    /\ Len(queue) >= 1
    /\ queue[1].seq = 2

\* C5: an accepted call starts at least the spacing after the accepted call
\* before it returned.
C5_RateLimit ==
    fate = "accepted" => (callGap = NoTime \/ callGap >= SEND_DELAY_SECONDS)

\* C5 witness: a second message is accepted, at its first call, right after the
\* closing sleep of an accepted message before it.
C5_Witness ==
    /\ fate = "accepted"
    /\ cur.seq = 2
    /\ tries = 1
    /\ callGap = SEND_DELAY_SECONDS

\* every seq number a message can get in a bounded run
MsgIds == 1 .. (MaxTicks * (ITEM_LIMIT + 2 * Len(load_events)))

\* message s, not yet finished, was enqueued after a message whose key the
\* Publisher always rejects, and its own key is one the Publisher accepts
AfterPoison(s) ==
    /\ Len(enq) >= s
    /\ s > nfin
    /\ enq[s].key \notin poison
    /\ \E x \in 1 .. (s - 1) : enq[x].key \in poison

\* C6: with a Publisher that fails fatally on every call for X and accepts Y,
\* enqueued after X: X is given up after exactly 6 calls, the worker task never
\* ends, and Y is eventually accepted.
C6_PoisonNonBlocking ==
    /\ [](fate = "dropped" => (tries = MAX_TRIES /\ cur.key \in poison))
    /\ [](wpc # "dead")
    /\ \A s \in MsgIds : [](AfterPoison(s) => <>(cur.seq = s /\ fate = "accepted"))

\* C6 witness: Y is accepted after the poisoned X before it was given up.
C6_Witness ==
    /\ mode = "poison"
    /\ cur # NoMsg
    /\ AfterPoison(cur.seq)
    /\ fate = "accepted"
    /\ nfin >= 1

\* C7: first answer retry-after N, second answer success: the second call starts
\* at least N after the throttled answer, no further call is made for the
\* message, and its key is recorded, by exactly one write.
C7_Backoff ==
    (fate = "accepted" /\ tries = 2 /\ lastFail.kind = "retry_after") =>
        /\ callAt - lastFail.at >= lastFail.n
        /\ wpc = "delay"
        /\ cur.key \in Recorded
        /\ Cardinality({i \in 1 .. Len(writes) : writes[i] = cur.key}) = 1

\* C7 witness: retry-after 1.5 s (not a whole number of seconds), then success.
C7_Witness ==
    /\ fate = "accepted"
    /\ tries = 2
    /\ lastFail.kind = "retry_after"
    /\ lastFail.n = 3

\* C8: a message whose failed calls were all answered retry-after is never given up.
C8_ThrottledNeverDropped == fate = "dropped" => ~onlyRA

\* C9: event e1 at T, ticks every 60 s from T - 35 min to T + 1 min: never more
\* than one alert per lead, and when the clock has run out exactly one 30-minute
\* and exactly one 5-minute alert have been enqueued for e1.
C9_TwoAlerts ==
    LET n30 == Cardinality(EnqueuedWith(alert_id(E1, 30)))
        n05 == Cardinality(EnqueuedWith(alert_id(E1, 5)))
    IN  /\ n30 <= 1
        /\ n05 <= 1
        /\ ~ProducerActive => (n30 = 1 /\ n05 = 1)

\* C9 witness: the simulated clock has run out, after ticks 60 s apart that did
\* not start on a window's edge, with both alerts of e1 in the log.
C9_Witness ==
    /\ mode = "clock"
    /\ ~ProducerActive
    /\ ticks.first = ClockStart + 7
    /\ ticks.last = ClockEnd - PollSleep + 7
    /\ Cardinality(EnqueuedWith(alert_id(E1, 30))) = 1
    /\ Cardinality(EnqueuedWith(alert_id(E1, 5))) = 1

\* C10: every alert of a high-impact event whose due time passes while the loop
\* runs (a tick at or before it, a tick at or after it) has been enqueued.
C10_NoAlertMissed ==
    \A n \in 1 .. Len(load_events), lead \in Leads :
        LET ev == load_events[n]
            due == DueAt(ev, lead)
        IN  (is_high_impact(ev) /\ ticks.first # NoTime
             /\ ticks.first <= due /\ due <= ticks.last)
            => EnqueuedWith(alert_id(ev, lead)) # {}

AlertIds == {alert_id(load_events[n], lead) : n \in 1 .. Len(load_events), lead \in Leads}

\* C11: an alert whose key has been recorded is not enqueued again, whatever
\* the clock reads afterwards: no step adds a message that carries an alert
\* key set_alert_sent was called for, also when the clock was set back into
\* the alert's window.
C11_ClockRegression ==
    [][\A i \in 1 .. Len(writes) :
          writes[i] \in AlertIds => EnqueuedWith(writes[i])' = EnqueuedWith(writes[i])]_vars

\* C11 witness: the alert was enqueued at the first tick, the clock was set back
\* by the poll period during the sleep, the second tick read a time inside the
\* window again, and is_alert_sent kept the alert from being enqueued.
C11_Witness ==
    /\ mode = "regress"
    /\ nticks = 2
    /\ skew < 0
    /\ InWindow(ticks.first, DueAt(E1, 5))
    /\ InWindow(ticks.last, DueAt(E1, 5))
    /\ ticks.last < ticks.first + PollSleep
    /\ alert_id(E1, 5) \in skipped
    /\ Cardinality(EnqueuedWith(alert_id(E1, 5))) = 1

\* the messages enqueued since the process was started again
SinceRestart == {i \in 1 .. Len(enq) : i > stop.enqAt}

\* C12: when STATE_FILE exists but cannot be read or parsed at load time, no
\* key that the file held (recorded before the failure) is enqueued again.
C12_ReadFailureConservative ==
    stop.failed => \A i \in SinceRestart : enq[i].key \notin stop.before

\* the latest cycle fetched the feeds and some feed failed
SomeFeedFailed == \E n \in 1 .. Len(hist.feeds) : ~hist.feeds[n].ok

\* C13: when a feed fails in a cycle, the items of the feeds that answered (no
\* more of them than a cycle posts) have all been enqueued when the cycle ends;
\* and run_bot never ends: a cycle that raised is followed by the 5 s sleep, a
\* cycle that did not by the poll sleep, and the loop goes on.
C13_SourceErrorIsolation ==
    /\ [](ppc = "loop")
    /\ []((SomeFeedFailed
           /\ Cardinality(ItemsOfOkFeeds(hist.feeds, hist.at)) <= ITEM_LIMIT)
          => \A it \in ItemsOfOkFeeds(hist.feeds, hist.at) : EnqueuedWith(it.id) # {})
    /\ [][nticks' = nticks + 1 =>
             pwake' - now' = (IF hist'.fault = "none" THEN PollSleep ELSE ErrorSleep)]_vars

\* C13 witness: the first cycle raised at the fetch; the loop slept and ran a
\* second cycle, in which the first feed failed and the two items of the second
\* feed were enqueued.
C13_Witness ==
    /\ mode = "ingest"
    /\ nticks = 2
    /\ hist.nfaults = 1
    /\ hist.fault = "none"
    /\ hist.feeds = <<FeedError, FeedOf(<<eA, eL>>)>>
    /\ EnqueuedWith(MakeItem(eA, 0).id) # {}
    /\ EnqueuedWith(MakeItem(eL, 0).id) # {}

\* the tiers, lowest first
TierRank(tier) == IF tier = "munkhafid" THEN 1 ELSE IF tier = "mutawassit" THEN 2 ELSE 3

\* the entries with a timestamp that the feeds of mode "ingest" hold
IngestEntries == {eA, eB, eC, eD, eF, eG, eL}

\* C14: there is a minimum tier above the lowest one such that no news item
\* whose strength is below it has been enqueued.
C14_StrengthFilter ==
    \E min \in {"mutawassit", "aaly"} :
        \A e \in IngestEntries :
            TierRank(detect_strength(KeywordsIn(e.title))) < TierRank(min)
                => EnqueuedWith(MakeItem(e, 0).id) = {}

\* key k is offered to the cycle that ran last: it is the fingerprint of an item
\* the feeds of mode "restart" hold in every fetch, or the key of an alert whose
\* window holds the time of that cycle
StillOffered(k) ==
    \/ k \in {MakeItem(eA, 0).id, MakeItem(eB, 0).id}
    \/ \E n \in 1 .. Len(load_events), lead \in Leads :
          /\ k = alert_id(load_events[n], lead)
          /\ is_high_impact(load_events[n])
          /\ InWindow(ticks.last, DueAt(load_events[n], lead))

\* C15: the key of a message that the Publisher had not accepted when the
\* process stopped is not in the persisted store, and once the new process has
\* run a cycle that was offered the same item, the item has been enqueued again.
C15_RestartRedelivery ==
    /\ stop.lost \cap stop.before = {}
    /\ (stop.n >= 1 /\ nticks >= 1) =>
           \A k \in stop.lost :
               StillOffered(k) => \E i \in SinceRestart : enq[i].key = k

\* C16: when a cycle has ended without an error, every item it fetched that
\* passed the filters has been enqueued (in that cycle, or before if its
\* fingerprint was recorded), and so has every item that two cycles in a row
\* fetched, however many newer items the fetch held.
C16_EveryNovelItemEnqueued ==
    /\ hist.fault = "none" =>
           \A it \in ItemsOfOkFeeds(hist.feeds, hist.at) : EnqueuedWith(it.id) # {}
    /\ \A k \in hist.twice : EnqueuedWith(k) # {}

\* the fingerprints entry eN (no timestamp) can get at the cycles run so far
NoTimeIds ==
    IF ticks.first = NoTime THEN {}
    ELSE {MakeItem(eN, t).id : t \in ticks.first .. (ticks.last + MaxCycleTime)}

\* C17: the entry without a parseable timestamp, listed unchanged by the feed
\* in successive cycles, has been enqueued at most once.
C17_NoTimestampOnce ==
    Cardinality({i \in 1 .. Len(enq) : enq[i].key \in NoTimeIds}) <= 1

\* C18: at most one worker task exists however often Sender.start() is called,
\* so at most one send_message call is in flight (a task has one call at most);
\* and the worker takes a message off the queue only when it holds none, and
\* when the message before it has finished and the spacing has passed since.
C18_SingleFlight ==
    /\ [](ntasks <= 1)
    /\ [](wpc = "call" => (ntasks = 1 /\ cur # NoMsg))
    /\ [][Len(queue') < Len(queue) =>
             /\ wpc = "get" /\ cur = NoMsg
             /\ wpc' = "call" /\ cur' = Head(queue)
             /\ (getGap' = NoTime \/ getGap' >= SEND_DELAY_SECONDS)]_vars

\* C18 witness: start() has been called three times; the only worker holds the
\* second message in a call, taken right when the spacing after the first had
\* passed, while a third message waits.
C18_Witness ==
    /\ mode = "start"
    /\ nstarts = 3
    /\ ntasks = 1
    /\ wpc = "call"
    /\ cur.seq = 2
    /\ getGap = SEND_DELAY_SECONDS
    /\ Len(queue) = 1

\* C19: whenever the worker stands at queue.get() after a message, delivered or
\* dropped, the spacing has passed since that message's send attempts ended,
\* and the message it holds was taken no earlier; and a call that follows a
\* failed call starts later than the failure.
C19_SleepAfterEveryCycle ==
    /\ (wpc = "get" /\ lastEnd.fate # "none") => lastEnd.at = LongAgo
    /\ cur # NoMsg => (getGap = NoTime \/ getGap >= SEND_DELAY_SECONDS)
    /\ (wpc = "call" /\ tries >= 1) => callAt > lastFail.at

\* C19 witness: the first message was dropped after its sixth failed call; the
\* worker slept the spacing, took the second message, and is in the second call
\* for it, 2 s after the first one failed.
C19_Witness ==
    /\ mode = "send"
    /\ lastEnd.fate = "dropped"
    /\ cur.seq = 2
    /\ getGap = SEND_DELAY_SECONDS
    /\ wpc = "call"
    /\ tries = 1
    /\ callAt - lastFail.at = Seconds(FATAL_SLEEP)

\* C20: every alert a cycle enqueues is the alert of an event of high impact
\* and of one of its leads L, and the time now of that cycle satisfies
\* event time - L <= now < event time.
C20_AlertTiming ==
    [][\A i \in (Len(enq) + 1) .. Len(enq') :
          enq'[i].kind = "alert" =>
              \E n \in 1 .. Len(load_events), lead \in Leads :
                  /\ enq'[i].key = alert_id(load_events[n], lead)
                  /\ load_events[n].impact \in HighImpacts
                  /\ DueAt(load_events[n], lead) <= ticks'.last
                  /\ ticks'.last < load_events[n].dt]_vars

\* C20 witness: the 5-minute alert of e1 was enqueued by a tick 59.5 s after
\* its due time, the 30-minute alert before it, and none for e3 (low impact).
C20_Witness ==
    /\ mode = "clock"
    /\ Len(enq) >= 2
    /\ enq[Len(enq)].key = alert_id(E1, 5)
    /\ ticks.last = DueAt(E1, 5) + PollSleep - 1
    /\ EnqueuedWith(alert_id(E1, 30)) # {}
    /\ \A lead \in Leads : EnqueuedWith(alert_id(load_events[3], lead)) = {}

====
